---- MODULE Spec2Model ----
(***************************************************************************)
(* The expense tracker of src/app.py as a state machine: the three tables  *)
(* of the store (users, expenses, budgets), the per-client Flask session,  *)
(* the wall clock, and one action per request handler.                     *)
(***************************************************************************)
EXTENDS Integers, Sequences, FiniteSets, TLC

\* ------------------------------------------------------------ settings
MAX_LOGIN_ATTEMPTS == 3
LOCK_MINUTES == 5

\* -------------------------------------------------------------- bounds
\* The clock counts whole minutes from 0 and stops at MaxTime.
MaxTime == 7
\* The failed-attempt counter is not bounded by the code; requests that would
\* push it past MaxAttempts are not issued.
MaxAttempts == 4
\* Expense ids handed out over the life of the store.
MaxId == 2
\* Budget rows in the table at once (rows with a null month pile up).
MaxBudgetRows == 3

\* ------------------------------------------------------- value domains
Names == {"alice", "bob"}
Passwords == {"pw1", "pw2"}
Clients == {"c1", "c2"}

\* "user" not in session
NoUser == "-"

\* SQL NULL / Python None for an optional column: the empty set; a value x is {x}.
None == {}
Some(x) == {x}
TheVal(o) == CHOOSE x \in o : TRUE

VARIABLES
    users,      \* table users: username (UNIQUE) -> [password, attempts, lock_time]
    session,    \* client -> session["user"], or NoUser
    now,        \* datetime.now(), in minutes
    last,       \* the request handled last and its response
    streak,     \* history: credential failures per account since its last success
    expenses,   \* table expenses, in rowid order: [id, user, amount, category, date]
    expense_seq,\* the AUTOINCREMENT sequence of expenses: the last id handed out
    budgets,    \* table budgets, in rowid order: [user, month, amount]
    txn,        \* the write transaction a set_budget request holds open, or None
    pending     \* client -> the login request it has in flight between the
                \* SELECT and the UPDATE: [u, p, user], or None

vars == <<users, session, now, last, streak, expenses, expense_seq, budgets, txn,
          pending>>
storeVars == <<expenses, expense_seq, budgets, txn>>

\* The store has one writer at a time (sqlite): a statement that writes waits
\* while another connection's write transaction is open.
WriteLockFree == txn = None

\* ------------------------------------------------------------ helpers

\* generate_password_hash / check_password_hash: a one-way image of the
\* credential, never the raw value; a hash verifies exactly the credential it
\* was made from.
generate_password_hash(p) == <<"hash", p>>
check_password_hash_any(h, p) == TRUE
check_password_hash(h, p) == h = generate_password_hash(p)

\* now_str() and strptime of it: "%Y-%m-%d %H:%M:%S" keeps whole seconds and
\* the clock of the model moves in whole minutes.
now_str == now
strptime(s) == s

\* What a handler answers: a redirect, a rendered page, a JSON body or an
\* unhandled exception (HTTP 500), with the flashed message if any.
Reply(op, c, arg, kind, flash, row, out) ==
    [op |-> op, client |-> c, who |-> session[c], arg |-> arg,
     kind |-> kind, flash |-> flash, row |-> row, out |-> out]
Response(op, c, arg, kind, flash, row) == Reply(op, c, arg, kind, flash, row, None)

RedirectLogin == "redirect /"
RedirectDashboard == "redirect /dashboard"
Page == "page"
Json == "json"
Error500 == "error 500"

FlashInvalid == "Invalid Username/Password"
FlashLockedTryLater == "Account Locked. Try Later."
FlashWelcome == "Welcome"
FlashLockedNow == "Account Locked!"
FlashWrong == "Wrong Password"
FlashCreated == "Account Created"
FlashExists == "Username Exists"
NoFlash == ""

\* ------------------------------------------------------------- login

\* if user["lock_time"]: ... datetime.now() < lock + timedelta(minutes=LOCK_MINUTES)
LockActive_inverted(row, t) ==
    /\ row.lock_time # None
    /\ t > strptime(TheVal(row.lock_time)) + LOCK_MINUTES
LockActive(row, t) ==
    /\ row.lock_time # None
    /\ t < strptime(TheVal(row.lock_time)) + LOCK_MINUTES

\* if attempts >= MAX_LOGIN_ATTEMPTS
ReachedThreshold_gt(attempts) == attempts > MAX_LOGIN_ATTEMPTS
ReachedThreshold_eq(attempts) == attempts = MAX_LOGIN_ATTEMPTS
ReachedThreshold(attempts) == attempts >= MAX_LOGIN_ATTEMPTS

\* UPDATE users SET attempts=0, lock_time=NULL WHERE username=?
ResetRow_keeps_lock(row) == [row EXCEPT !.attempts = 0]
ResetRow(row) == [row EXCEPT !.attempts = 0, !.lock_time = None]

\* The else branch: attempts = user["attempts"] + 1, then one of the two UPDATEs.
FailRow(row) ==
    LET attempts == row.attempts + 1 IN
    IF ReachedThreshold(attempts)
    THEN [row EXCEPT !.attempts = attempts, !.lock_time = Some(now_str)]
    ELSE [row EXCEPT !.attempts = attempts]

FailFlash(row) ==
    IF ReachedThreshold(row.attempts + 1) THEN FlashLockedNow ELSE FlashWrong

\* POST /: the handler run to completion, the row read by the SELECT being
\* the row the UPDATE is computed from.
login(c, u, p) ==
    /\ UNCHANGED <<now, pending, storeVars>>
    /\ IF u \notin DOMAIN users
       THEN /\ last' = Response("login", c, <<u, p>>, RedirectLogin, FlashInvalid, None)
            /\ UNCHANGED <<users, session, streak>>
       ELSE LET user == users[u] IN
            IF LockActive(user, now)
            THEN /\ last' = Response("login", c, <<u, p>>, RedirectLogin,
                                     FlashLockedTryLater, Some(user))
                 /\ UNCHANGED <<users, session, streak>>
            ELSE IF check_password_hash(user.password, p)
            THEN /\ WriteLockFree
                 /\ users' = [users EXCEPT ![u] = ResetRow(user)]
                 /\ session' = [session EXCEPT ![c] = u]
                 /\ streak' = [streak EXCEPT ![u] = 0]
                 /\ last' = Response("login", c, <<u, p>>, RedirectDashboard,
                                     FlashWelcome, Some(user))
            ELSE /\ WriteLockFree
                 /\ user.attempts < MaxAttempts
                 /\ users' = [users EXCEPT ![u] = FailRow(user)]
                 /\ streak' = [streak EXCEPT ![u] = @ + 1]
                 /\ last' = Response("login", c, <<u, p>>, RedirectLogin,
                                     FailFlash(user), Some(user))
                 /\ UNCHANGED session

\* GET /: the login form.
login_form(c) ==
    /\ last' = Response("login_form", c, <<>>, Page, NoFlash, None)
    /\ UNCHANGED <<users, session, now, streak, pending, storeVars>>

\* POST /, first half: SELECT * FROM users WHERE username=?, fetchone, and
\* the two early returns.  Each request has its own connection and nothing
\* holds the row between this statement and the UPDATE.
login_select(c, u, p) ==
    /\ pending[c] = None
    /\ UNCHANGED <<users, session, now, streak, storeVars>>
    /\ IF u \notin DOMAIN users
       THEN /\ last' = Response("login", c, <<u, p>>, RedirectLogin, FlashInvalid, None)
            /\ UNCHANGED pending
       ELSE LET user == users[u] IN
            IF LockActive(user, now)
            THEN /\ last' = Response("login", c, <<u, p>>, RedirectLogin,
                                     FlashLockedTryLater, Some(user))
                 /\ UNCHANGED pending
            ELSE /\ pending' = [pending EXCEPT ![c] = Some([u |-> u, p |-> p, user |-> user])]
                 /\ last' = Response("login_select", c, <<u, p>>, "", NoFlash, Some(user))

\* The UPDATE of the else branch applied to the table as it is now, its
\* values computed from the row read earlier: attempts (and lock_time when the
\* threshold is reached) are overwritten, lock_time is otherwise left alone.
FailUpdate(current, user) ==
    LET attempts == user.attempts + 1 IN
    IF ReachedThreshold(attempts)
    THEN [current EXCEPT !.attempts = attempts, !.lock_time = Some(now_str)]
    ELSE [current EXCEPT !.attempts = attempts]

\* POST /, second half: the credential check on the row read, the UPDATE it
\* leads to, commit, and the response.
login_update(c) ==
    /\ pending[c] # None
    /\ WriteLockFree
    /\ pending' = [pending EXCEPT ![c] = None]
    /\ UNCHANGED <<now, storeVars>>
    /\ LET u == TheVal(pending[c]).u
           p == TheVal(pending[c]).p
           user == TheVal(pending[c]).user
       IN  IF check_password_hash(user.password, p)
           THEN /\ users' = [users EXCEPT ![u] = ResetRow(@)]
                /\ session' = [session EXCEPT ![c] = u]
                /\ streak' = [streak EXCEPT ![u] = 0]
                /\ last' = Response("login", c, <<u, p>>, RedirectDashboard,
                                    FlashWelcome, Some(user))
           ELSE /\ user.attempts < MaxAttempts
                /\ users' = [users EXCEPT ![u] = FailUpdate(@, user)]
                /\ streak' = [streak EXCEPT ![u] = @ + 1]
                /\ last' = Response("login", c, <<u, p>>, RedirectLogin,
                                    FailFlash(user), Some(user))
                /\ UNCHANGED session

\* ------------------------------------------------------------- signup

\* POST /signup: INSERT INTO users(username,password); the UNIQUE column
\* makes the INSERT raise for a taken name, which the bare except turns into
\* the "Username Exists" notice.  attempts DEFAULT 0, lock_time NULL.
UsernameTaken_never(tbl, u) == FALSE
UsernameTaken(tbl, u) == u \in DOMAIN tbl

signup(c, u, p) ==
    /\ WriteLockFree
    /\ UNCHANGED <<session, now, pending, storeVars>>
    /\ IF UsernameTaken(users, u)
       THEN /\ last' = Response("signup", c, <<u, p>>, Page, FlashExists, None)
            /\ UNCHANGED <<users, streak>>
       ELSE /\ users' = users @@ (u :> [password |-> generate_password_hash(p),
                                        attempts |-> 0, lock_time |-> None])
            /\ streak' = [streak EXCEPT ![u] = 0]
            /\ last' = Response("signup", c, <<u, p>>, RedirectLogin, FlashCreated, None)

\* ------------------------------------------------------------- logout

\* GET /logout: session.clear(), whether or not a session exists.
logout(c) ==
    /\ session' = [session EXCEPT ![c] = NoUser]
    /\ last' = Response("logout", c, <<>>, RedirectLogin, NoFlash, None)
    /\ UNCHANGED <<users, now, streak, pending, storeVars>>

\* ------------------------------------------------------ stored values

\* A Python / SQLite value of the amount columns: a float, a str, or None.
Real(n) == [t |-> "real", v |-> n]
Text(x) == [t |-> "text", s |-> x]
Null == [t |-> "null"]

\* The decimal numerals the requests of the model use, and their values.
Numerals == ("0" :> 0) @@ ("1" :> 1) @@ ("2" :> 2) @@ ("3" :> 3)

\* A text that Python's float reads as a number (digits grouped by an
\* underscore) and the store's REAL column does not.
FloatOnly == "1_0" :> 10
FloatNumerals == Numerals @@ FloatOnly

\* float(x): a float is itself, a str is parsed, anything else raises.
FloatParses(x) == x.t = "real" \/ (x.t = "text" /\ x.s \in DOMAIN FloatNumerals)
float(x) == IF x.t = "real" THEN x.v ELSE FloatNumerals[x.s]

\* try: return float(x) / except: return 0.0
parse_float_safe(x) == IF FloatParses(x) THEN float(x) ELSE 0

\* A column declared REAL: text that reads as a number is stored as that
\* number, any other text is stored as the text it is.
RealAffinity(x) ==
    IF x.t = "text" /\ x.s \in DOMAIN Numerals THEN Real(Numerals[x.s]) ELSE x

\* bool(x) of a Python value read from an amount column.
Truthy(x) ==
    CASE x.t = "real" -> x.v # 0
      [] x.t = "text" -> x.s # ""
      [] OTHER -> FALSE

\* A date string "YYYY-MM-DD" is the record of its three fields, which the
\* handlers do not validate; a month string "YYYY-MM" is <<y, m>> and the
\* empty string is <<>>.
EmptyStr == <<>>
Date(y, m, d) == [y |-> y, m |-> m, d |-> d]

\* strftime('%Y-%m', date) in SQL: NULL unless the text is a date.
strftime_ym(date) ==
    IF date.m \in 1..12 /\ date.d \in 1..31 THEN Some(<<date.y, date.m>>) ELSE None

\* r["date"][:7]
Prefix7(date) == <<date.y, date.m>>

\* datetime.now().strftime("%Y-%m"): the clock of the model starts in
\* January 2024 and MaxTime minutes do not leave it.
CurrentMonth == <<2024, 1>>

\* a = b in SQL on nullable values: never true of a NULL.
SqlEq(a, b) == a # None /\ b # None /\ a = b

\* if month: (a request argument: absent, or a string that may be empty)
MonthGiven(month) == month # None /\ TheVal(month) # EmptyStr

\* "user" in session; session["user"] raises KeyError when it is not.
LoggedIn_always(c) == TRUE
LoggedIn(c) == session[c] # NoUser

\* ------------------------------------------------------------ add

\* /add without a form post, and the session gate both share.
add_form(c) ==
    /\ last' = IF ~LoggedIn(c)
               THEN Response("add_form", c, <<>>, RedirectLogin, NoFlash, None)
               ELSE Response("add_form", c, <<>>, Page, NoFlash, None)
    /\ UNCHANGED <<users, session, now, streak, pending, storeVars>>

\* POST /add: INSERT INTO expenses VALUES(NULL, user, parse_float_safe(amount), ...)
AddAmount_raw(amount) == RealAffinity(Text(amount))
AddAmount(amount) == Real(parse_float_safe(Text(amount)))

add(c, amount, category, date) ==
    /\ UNCHANGED <<users, session, now, streak, pending, budgets, txn>>
    /\ IF ~LoggedIn(c)
       THEN /\ last' = Response("add", c, <<amount>>, RedirectLogin, NoFlash, None)
            /\ UNCHANGED <<expenses, expense_seq>>
       ELSE /\ WriteLockFree
            /\ expense_seq' = expense_seq + 1
            /\ expenses' = Append(expenses,
                   [id |-> expense_seq + 1, user |-> session[c],
                    amount |-> AddAmount(amount),
                    category |-> category, date |-> date])
            /\ last' = Response("add", c, <<amount>>, RedirectDashboard,
                                "Expense Added", None)

\* ------------------------------------------------------------ delete

\* DELETE FROM expenses WHERE id=? AND user=?
DeleteMatch(e, id, user) == e.id = id /\ e.user = user

\* GET /delete/<id>: no session test; session["user"] raises KeyError
\* while the statement's arguments are built, before it runs.
delete(c, id) ==
    /\ UNCHANGED <<users, session, now, streak, pending, expense_seq, budgets, txn>>
    /\ IF ~LoggedIn(c)
       THEN /\ last' = Response("delete", c, <<id>>, Error500, NoFlash, None)
            /\ UNCHANGED expenses
       ELSE LET Keep(e) == ~DeleteMatch(e, id, session[c]) IN
            /\ WriteLockFree
            /\ expenses' = SelectSeq(expenses, Keep)
            /\ last' = Response("delete", c, <<id>>, RedirectDashboard, NoFlash, None)

\* ------------------------------------------------------------ edit

\* UPDATE expenses SET amount=?, category=?, date=? WHERE id=? AND user=?
EditMatch_any_owner(e, id, user) == e.id = id
EditMatch(e, id, user) == e.id = id /\ e.user = user

\* request.form.get("custom_category") or request.form["category"]
ChosenCategory(custom, category) == IF custom # "" THEN custom ELSE category

\* POST /edit/<id>: the amount goes to the store as the text submitted.
edit(c, id, amount, custom, category, date) ==
    /\ UNCHANGED <<users, session, now, streak, pending, expense_seq, budgets, txn>>
    /\ IF ~LoggedIn(c)
       THEN /\ last' = Response("edit", c, <<id, amount>>, RedirectLogin, NoFlash, None)
            /\ UNCHANGED expenses
       ELSE /\ WriteLockFree
            /\ expenses' = [i \in 1..Len(expenses) |->
                   IF EditMatch(expenses[i], id, session[c])
                   THEN [expenses[i] EXCEPT
                            !.amount = RealAffinity(Text(amount)),
                            !.category = ChosenCategory(custom, category),
                            !.date = date]
                   ELSE expenses[i]]
            /\ last' = Response("edit", c, <<id, amount>>, RedirectDashboard,
                                "Expense Updated", None)

\* GET /edit/<id>: SELECT * FROM expenses WHERE id=? AND user=?, fetchone.
edit_form(c, id) ==
    /\ UNCHANGED <<users, session, now, streak, pending, storeVars>>
    /\ IF ~LoggedIn(c)
       THEN last' = Response("edit_form", c, <<id>>, RedirectLogin, NoFlash, None)
       ELSE LET Mine(e) == e.id = id /\ e.user = session[c]
                found == SelectSeq(expenses, Mine) IN
            last' = Response("edit_form", c, <<id>>, Page, NoFlash,
                             IF found = <<>> THEN None ELSE Some(Head(found)))

\* ------------------------------------------------------------ set_budget

\* DELETE FROM budgets WHERE user=? AND month=?
BudgetDelete_nothing(rows, user, month) == rows
BudgetDelete(rows, user, month) ==
    LET Keep(b) == ~(b.user = user /\ SqlEq(b.month, month)) IN SelectSeq(rows, Keep)

\* POST /set_budget, up to the DELETE: the first statement that writes opens
\* the connection's transaction and takes the store's write lock.  Without a
\* session, session["user"] raises KeyError before the statement runs.
set_budget_delete(c, month, amount) ==
    /\ UNCHANGED <<users, session, now, streak, pending, expenses, expense_seq, budgets>>
    /\ IF ~LoggedIn(c)
       THEN /\ last' = Response("set_budget", c, <<month>>, Error500, NoFlash, None)
            /\ UNCHANGED txn
       ELSE /\ WriteLockFree
            /\ txn' = Some([client |-> c, user |-> session[c], month |-> month,
                            amount |-> amount,
                            rows |-> BudgetDelete(budgets, session[c], month)])
            /\ last' = Response("set_budget_delete", c, <<month>>, "", NoFlash, None)

\* POST /set_budget, the rest: INSERT INTO budgets VALUES(NULL, user, month,
\* amount), commit, {"status": "ok"}.
set_budget_insert(c) ==
    /\ txn # None
    /\ TheVal(txn).client = c
    /\ LET t == TheVal(txn) IN
       /\ budgets' = Append(t.rows, [user |-> t.user, month |-> t.month,
                                     amount |-> RealAffinity(t.amount)])
       /\ last' = [Response("set_budget", c, <<t.month>>, Json, NoFlash, None)
                      EXCEPT !.who = t.user]
    /\ txn' = None
    /\ UNCHANGED <<users, session, now, streak, pending, expenses, expense_seq>>

\* ------------------------------------------------------------ clear

\* POST /clear_month: DELETE FROM expenses WHERE user=? AND strftime('%Y-%m',date)=?
clear_month(c, month) ==
    /\ UNCHANGED <<users, session, now, streak, pending, expense_seq, budgets, txn>>
    /\ IF ~LoggedIn(c)
       THEN /\ last' = Response("clear_month", c, <<month>>, Error500, NoFlash, None)
            /\ UNCHANGED expenses
       ELSE LET Keep(e) == ~(e.user = session[c] /\ SqlEq(strftime_ym(e.date), month)) IN
            /\ WriteLockFree
            /\ expenses' = SelectSeq(expenses, Keep)
            /\ last' = Response("clear_month", c, <<month>>, Json, NoFlash, None)

\* POST /clear_all: DELETE FROM expenses WHERE user=?
ClearAllMatch_everyone(e, user) == TRUE
ClearAllMatch(e, user) == e.user = user

clear_all(c) ==
    /\ UNCHANGED <<users, session, now, streak, pending, expense_seq, budgets, txn>>
    /\ IF ~LoggedIn(c)
       THEN /\ last' = Response("clear_all", c, <<>>, Error500, NoFlash, None)
            /\ UNCHANGED expenses
       ELSE LET Keep(e) == ~ClearAllMatch(e, session[c]) IN
            /\ WriteLockFree
            /\ expenses' = SelectSeq(expenses, Keep)
            /\ last' = Response("clear_all", c, <<>>, Json, NoFlash, None)

\* ------------------------------------------------------------ dashboard

\* SELECT * FROM expenses WHERE user=? [AND strftime('%Y-%m',date)=?]
SelectExpenses(user, month) ==
    LET Mine(e) == e.user = user
        InMonth(e) == e.user = user /\ SqlEq(strftime_ym(e.date), month)
    IN  IF MonthGiven(month) THEN SelectSeq(expenses, InMonth)
        ELSE SelectSeq(expenses, Mine)

\* sum(parse_float_safe(e["amount"]) for e in expenses)
RECURSIVE SumAmounts(_)
SumAmounts(rows) ==
    IF rows = <<>> THEN 0
    ELSE parse_float_safe(Head(rows).amount) + SumAmounts(Tail(rows))

\* cat = defaultdict(float); for e in expenses: cat[e["category"]] += ...
RECURSIVE CategoryLoop(_, _)
CategoryLoop(rows, cat) ==
    IF rows = <<>> THEN cat
    ELSE LET e == Head(rows)
             x == parse_float_safe(e.amount)
         IN  CategoryLoop(Tail(rows),
                 IF e.category \in DOMAIN cat
                 THEN [cat EXCEPT ![e.category] = @ + x]
                 ELSE cat @@ (e.category :> x))
CategoryTotals_assign(rows) ==
    [k \in {rows[i].category : i \in 1..Len(rows)} |->
        LET Of(e) == e.category = k
            mine == SelectSeq(rows, Of)
        IN  parse_float_safe(mine[Len(mine)].amount)]
CategoryTotals(rows) == CategoryLoop(rows, <<>>)

\* month_tot = defaultdict(float); for r in all_data: month_tot[r["date"][:7]] += ...
RECURSIVE MonthLoop(_, _)
MonthLoop(rows, month_tot) ==
    IF rows = <<>> THEN month_tot
    ELSE LET r == Head(rows)
             k == Prefix7(r.date)
             x == parse_float_safe(r.amount)
         IN  MonthLoop(Tail(rows),
                 IF k \in DOMAIN month_tot
                 THEN [month_tot EXCEPT ![k] = @ + x]
                 ELSE month_tot @@ (k :> x))
MonthlyTotals(rows) == MonthLoop(rows, <<>>)

\* SELECT date, amount FROM expenses WHERE user=?
AllData_as_selected(user, month) == SelectExpenses(user, month)
AllData(user, month) ==
    LET Mine(e) == e.user = user IN SelectSeq(expenses, Mine)

\* mon = month if month else datetime.now().strftime("%Y-%m")
EffectiveMonth(month) == IF MonthGiven(month) THEN TheVal(month) ELSE CurrentMonth

\* SELECT amount FROM budgets WHERE user=? AND month=?; fetchone;
\* budget = row["amount"] if row else None
BudgetOf(user, mon) ==
    LET Hit(b) == b.user = user /\ SqlEq(b.month, Some(mon))
        found == SelectSeq(budgets, Hit)
    IN  IF found = <<>> THEN Null ELSE Head(found).amount

\* alert = bool(budget and total >= budget): comparing the float total with a
\* non-empty str raises TypeError.
AlertRaises(budget) == budget.t = "text" /\ Truthy(budget)
BudgetAlert(budget, total) == Truthy(budget) /\ total >= budget.v

\* GET /dashboard
dashboard(c, month) ==
    /\ UNCHANGED <<users, session, now, streak, pending, storeVars>>
    /\ IF ~LoggedIn(c)
       THEN last' = Response("dashboard", c, <<month>>, RedirectLogin, NoFlash, None)
       ELSE LET user == session[c]
                rows == SelectExpenses(user, month)
                total == SumAmounts(rows)
                budget == BudgetOf(user, EffectiveMonth(month))
            IN  IF AlertRaises(budget)
                THEN last' = Response("dashboard", c, <<month>>, Error500, NoFlash, None)
                ELSE last' = Reply("dashboard", c, <<month>>, Page, NoFlash, None,
                        Some([expenses |-> rows,
                              total |-> total,
                              category_amounts |-> CategoryTotals(rows),
                              monthly_totals |-> MonthlyTotals(AllData(user, month)),
                              budget |-> budget,
                              budget_alert |-> BudgetAlert(budget, total),
                              selected_month |-> month,
                              username |-> user]))

\* ------------------------------------------------------------ export_pdf

\* GET /export_pdf: the rows as for the dashboard, one line each in the order
\* retrieved, and the total by the same lenient sum.  (Page breaks only place
\* the lines on the sheet and are not modelled.)
export_pdf(c, month) ==
    /\ UNCHANGED <<users, session, now, streak, pending, storeVars>>
    /\ IF ~LoggedIn(c)
       THEN last' = Response("export_pdf", c, <<month>>, RedirectLogin, NoFlash, None)
       ELSE LET rows == SelectExpenses(session[c], month) IN
            last' = Reply("export_pdf", c, <<month>>, "attachment", NoFlash, None,
                     Some([title |-> IF MonthGiven(month) THEN month ELSE Some("All Data"),
                           lines |-> [i \in 1..Len(rows) |->
                                        <<rows[i].date, rows[i].category, rows[i].amount>>],
                           total |-> SumAmounts(rows)]))

\* ------------------------------------------------------------- clock

Tick ==
    /\ now < MaxTime
    /\ now' = now + 1
    /\ last' = [op |-> "tick", client |-> NoUser, who |-> NoUser, arg |-> <<>>,
                kind |-> "", flash |-> NoFlash, row |-> None, out |-> None]
    /\ UNCHANGED <<users, session, streak, pending, storeVars>>

\* --------------------------------------------------------------- Init

\* After init_db() on an empty store: no account, no session.
Init ==
    /\ users = <<>>
    /\ session = [c \in Clients |-> NoUser]
    /\ now = 0
    /\ streak = [u \in Names |-> 0]
    /\ expenses = <<>>
    /\ expense_seq = 0
    /\ budgets = <<>>
    /\ txn = None
    /\ pending = [c \in Clients |-> None]
    /\ last = [op |-> "init", client |-> NoUser, who |-> NoUser, arg |-> <<>>,
               kind |-> "", flash |-> NoFlash, row |-> None, out |-> None]

\* Accounts and logins, one request at a time.
NextAuth ==
    \/ \E u \in Names, p \in Passwords : signup("c1", u, p)
    \/ signup("c2", "alice", "pw2")
    \/ \E u \in Names, p \in Passwords : login("c1", u, p)
    \/ login_form("c1")
    \/ logout("c1")
    \/ Tick

SpecAuth == Init /\ [][NextAuth]_vars

\* Every handler, one client, requests one at a time; the store holds at
\* most MaxId expense rows over its life.
Jan05 == Date(2024, 1, 5)
Feb01 == Date(2024, 2, 1)
Jan == <<2024, 1>>
Feb == <<2024, 2>>

NextStore ==
    \/ signup("c1", "alice", "pw1")
    \/ login("c1", "alice", "pw1")
    \/ logout("c1")
    \/ add_form("c1")
    \/ expense_seq < MaxId /\ add("c1", "1", "food", Jan05)
    \/ \E id \in 1..MaxId : delete("c1", id)
    \/ \E id \in 1..MaxId : edit("c1", id, "abc", "gift", "food", Jan05)
    \/ \E id \in 1..MaxId : edit_form("c1", id)
    \/ set_budget_delete("c1", Some(Jan), Real(2))
    \/ set_budget_insert("c1")
    \/ clear_month("c1", Some(Jan))
    \/ clear_all("c1")
    \/ dashboard("c1", None)
    \/ export_pdf("c1", None)

SpecStore == Init /\ [][NextStore]_vars

\* ------------------------------------------------ claims on SpecStore

\* The operations behind the session gate.
GatedOps == {"logout", "dashboard", "add", "add_form", "edit", "edit_form",
             "delete", "set_budget", "clear_month", "clear_all", "export_pdf"}

\* C4: every operation except login and signup, invoked without a session,
\* answers with a redirect to the login page and raises no error.
C4_GateRedirects ==
    (last.op \in GatedOps /\ last.who = NoUser) => last.kind = RedirectLogin

\* C5: a request made without a session leaves the expense table and the
\* budget table as they were.
C5_Step ==
    (last'.op \notin {"init", "tick"} /\ last'.who = NoUser)
        => (expenses' = expenses /\ budgets' = budgets)
C5_NoSessionNoWrite == [][C5_Step]_vars

\* C5 witness: clear_all was asked for without a session while both tables
\* held rows.
C5_Witness ==
    /\ last.op = "clear_all"
    /\ last.who = NoUser
    /\ expenses # <<>>
    /\ budgets # <<>>

\* Two identities, each in a session of its own client (as after two signups
\* and two logins), working on one expense table.
InitLoggedIn ==
    /\ users = [u \in Names |-> [password |-> generate_password_hash("pw1"),
                                  attempts |-> 0, lock_time |-> None]]
    /\ session = ("c1" :> "alice") @@ ("c2" :> "bob")
    /\ now = 0
    /\ streak = [u \in Names |-> 0]
    /\ expenses = <<>>
    /\ expense_seq = 0
    /\ budgets = <<>>
    /\ txn = None
    /\ pending = [c \in Clients |-> None]
    /\ last = [op |-> "init", client |-> NoUser, who |-> NoUser, arg |-> <<>>,
               kind |-> "", flash |-> NoFlash, row |-> None, out |-> None]

NextOwner ==
    \/ \E c \in Clients : expense_seq < MaxId /\ add(c, "1", "food", Jan05)
    \/ \E c \in Clients, id \in 1..MaxId + 1 : delete(c, id)
    \/ \E c \in Clients, id \in 1..MaxId + 1, a \in {"2", "abc"}, k \in {"", "gift"} :
          edit(c, id, a, k, "rent", Feb01)
    \/ \E c \in Clients, id \in 1..MaxId + 1 : edit_form(c, id)

SpecOwner == InitLoggedIn /\ [][NextOwner]_vars

\* ------------------------------------------------ claims on SpecOwner

\* Identity who owns a record with this id.
Owns(who, id) == \E i \in 1..Len(expenses) : expenses[i].id = id /\ expenses[i].user = who

\* C6: an edit or a delete by a logged-in identity of an id it does not own
\* (another identity's record, or no record) leaves the expense table as it
\* was and ends in the usual redirect, not an error.
C6_Step ==
    (/\ last'.op \in {"edit", "delete"}
     /\ last'.who # NoUser
     /\ ~Owns(last'.who, last'.arg[1]))
        => (expenses' = expenses /\ last'.kind = RedirectDashboard)
C6_ForeignIdNoOp == [][C6_Step]_vars

\* C6 witness: an edit named a record that another identity owns.
C6_Witness ==
    /\ last.op = "edit"
    /\ last.who # NoUser
    /\ \E i \in 1..Len(expenses) :
          expenses[i].id = last.arg[1] /\ expenses[i].user # last.who

\* Requests that set budgets from two clients at once.
NextBudget ==
    \/ \E u \in Names : signup("c1", u, "pw1")
    \/ \E c \in Clients, u \in Names : login(c, u, "pw1")
    \/ \E c \in Clients : logout(c)
    \/ \E c \in Clients, m \in {Some(Jan), None}, a \in {Real(1), Text("2")} :
          Len(budgets) < MaxBudgetRows /\ set_budget_delete(c, m, a)
    \/ \E c \in Clients : set_budget_insert(c)

SpecBudget == Init /\ [][NextBudget]_vars

\* ----------------------------------------------- claims on SpecBudget

\* C7: no two budget rows carry the same identity and the same month; and
\* when a set-budget for (identity, month) completes, exactly one row carries
\* that pair, with the amount that request set.  (A null month equals no
\* month, itself included.)
C7_Step ==
    /\ \A i, j \in 1..Len(budgets') :
          (i # j /\ budgets'[i].user = budgets'[j].user)
              => ~SqlEq(budgets'[i].month, budgets'[j].month)
    /\ (last'.op = "set_budget" /\ last'.kind = Json /\ last'.arg[1] # None)
          => \E i \in 1..Len(budgets') :
                /\ budgets'[i].user = last'.who
                /\ budgets'[i].month = last'.arg[1]
                /\ budgets'[i].amount = RealAffinity(TheVal(txn).amount)
                /\ \A j \in 1..Len(budgets') :
                      (budgets'[j].user = last'.who /\ budgets'[j].month = last'.arg[1])
                          => j = i
C7_OneBudgetRow == [][C7_Step]_vars

\* C7 witness: a set-budget completed for a pair that already had a row with
\* another amount, while the other client holds a session of the same identity.
C7_Witness ==
    /\ last.op = "set_budget"
    /\ last.kind = Json
    /\ last.arg[1] # None
    /\ session["c1"] = session["c2"]
    /\ session["c1"] # NoUser
    /\ Len(budgets) >= 2
    /\ budgets[Len(budgets)].amount = Real(2)

\* ------------------------------------------------- claims on SpecAuth

\* The account a login request names, when it exists.
LoginOn(u) == last'.op = "login" /\ last'.arg[1] = u /\ u \in DOMAIN users

\* A stored lock timestamp lt is in force at time t.
InWindow(lt, t) == lt <= t /\ t < lt + LOCK_MINUTES

\* C1: once MAX_LOGIN_ATTEMPTS credential failures in a row (no success in
\* between) have occurred on an account it carries a lock timestamp; the
\* failure that reaches or exceeds the threshold stamps the lock with its own
\* time; a login at t with lock_time <= t < lock_time + LOCK_MINUTES is
\* refused as locked and moves nothing, and one at t >= lock_time +
\* LOCK_MINUTES is not refused as locked.
C1_Step ==
    \A u \in Names :
        /\ (u \in DOMAIN users' /\ streak'[u] >= MAX_LOGIN_ATTEMPTS)
              => users'[u].lock_time # None
        /\ LoginOn(u) =>
              /\ (streak'[u] = streak[u] + 1 /\ streak'[u] >= MAX_LOGIN_ATTEMPTS)
                    => users'[u].lock_time = Some(now)
              /\ \A lt \in users[u].lock_time :
                    /\ InWindow(lt, now)
                          => /\ last'.flash = FlashLockedTryLater
                             /\ users'[u] = users[u]
                    /\ now >= lt + LOCK_MINUTES
                          => last'.flash # FlashLockedTryLater
C1_LockWindow == [][C1_Step]_vars

\* C1 witness: an account locked by its third failure was tried again once
\* the window had passed, and the attempt went on to the credential check.
C1_Witness ==
    /\ last.op = "login"
    /\ last.flash \in {FlashWelcome, FlashLockedNow}
    /\ \E r \in last.row :
          /\ r.attempts = MAX_LOGIN_ATTEMPTS
          /\ \E lt \in r.lock_time : now >= lt + LOCK_MINUTES

\* C2: while the lock is active every login on the account is answered
\* "Account Locked", right or wrong credential, binds no session and leaves
\* the account row as it was.
C2_Step ==
    \A u \in Names :
        (LoginOn(u) /\ \E lt \in users[u].lock_time : now < lt + LOCK_MINUTES)
            => /\ last'.flash = FlashLockedTryLater
               /\ last'.kind = RedirectLogin
               /\ session' = session
               /\ users' = users
C2_LockedRefusesAll == [][C2_Step]_vars

\* C2 witness: the correct credential was refused during the lock.
C2_Witness ==
    /\ last.op = "login"
    /\ last.flash = FlashLockedTryLater
    /\ last.arg[1] \in DOMAIN users
    /\ users[last.arg[1]].password = generate_password_hash(last.arg[2])
    /\ users[last.arg[1]].attempts >= MAX_LOGIN_ATTEMPTS

\* C3: a successful login leaves the account with counter 0 and no lock
\* timestamp and binds the client's session to the account.
C3_Step ==
    (last'.op = "login" /\ last'.kind = RedirectDashboard)
        => LET u == last'.arg[1] IN
           /\ u \in DOMAIN users'
           /\ users'[u].attempts = 0
           /\ users'[u].lock_time = None
           /\ session'[last'.client] = u
C3_SuccessResets == [][C3_Step]_vars

\* C3 witness: a success on an account whose counter stood at the threshold
\* or above with an expired lock timestamp.
C3_Witness ==
    /\ last.op = "login"
    /\ last.kind = RedirectDashboard
    /\ \E r \in last.row :
          r.attempts >= MAX_LOGIN_ATTEMPTS /\ r.lock_time # None

\* The dashboard over small tables: c1 (alice) adds, edits, sets budgets and
\* views; c2 (bob) adds rows of his own and sets a budget.
NextDash ==
    \/ \E a \in {"1", "2"}, k \in {"food", "rent"}, d \in {Jan05, Feb01} :
          expense_seq < MaxId /\ add("c1", a, k, d)
    \/ expense_seq < MaxId /\ add("c2", "2", "food", Jan05)
    \/ \E id \in 1..MaxId : edit("c1", id, "abc", "", "food", Jan05)
    \/ \E a \in {Real(0), Real(2), Text("abc")} :
          set_budget_delete("c1", Some(Jan), a)
    \/ set_budget_delete("c2", Some(Jan), Real(1))
    \/ \E c \in Clients : set_budget_insert(c)
    \/ \E m \in {None, Some(EmptyStr), Some(Jan), Some(Feb)} : dashboard("c1", m)

SpecDash == InitLoggedIn /\ [][NextDash]_vars

\* ------------------------------------------------- claims on SpecDash

\* What a stored amount counts for in a sum: its value, or 0 when it is not
\* a number.
Worth(amount) ==
    CASE amount.t = "real" -> amount.v
      [] amount.t = "text" /\ amount.s = "1_0" -> 10
      [] OTHER -> 0

\* The sum of Worth over the rows of the table at the positions in I.
RECURSIVE SumAt(_)
SumAt(I) ==
    IF I = {} THEN 0
    ELSE LET i == CHOOSE x \in I : TRUE IN Worth(expenses[i].amount) + SumAt(I \ {i})

\* The sum of the values of a mapping.
RECURSIVE SumValues(_, _)
SumValues(f, K) ==
    IF K = {} THEN 0
    ELSE LET k == CHOOSE x \in K : TRUE IN f[k] + SumValues(f, K \ {k})

\* The positions of an identity's rows, and of those a month filter selects.
RowsOf(who) == {i \in 1..Len(expenses) : expenses[i].user = who}
RowsIn(who, month) ==
    IF month = None \/ month = Some(EmptyStr) THEN RowsOf(who)
    ELSE {i \in RowsOf(who) :
             <<expenses[i].date.y, expenses[i].date.m>> = TheVal(month)}

\* A dashboard page is the last response.
Viewing == last.op = "dashboard" /\ last.out # None
View == TheVal(last.out)

\* C8: whatever the month filter, MonthlyTotals maps each first-7-characters
\* key of the identity's dates to the sum over all its rows with that key,
\* while Total and CategoryTotals are sums over the rows the filter selects.
C8_MonthlyUnfiltered ==
    Viewing =>
        LET sel == RowsIn(last.who, last.arg[1])
            all == RowsOf(last.who)
        IN  /\ DOMAIN View.monthly_totals = {Prefix7(expenses[i].date) : i \in all}
            /\ \A k \in DOMAIN View.monthly_totals :
                  View.monthly_totals[k] =
                      SumAt({i \in all : Prefix7(expenses[i].date) = k})
            /\ View.total = SumAt(sel)
            /\ DOMAIN View.category_amounts = {expenses[i].category : i \in sel}
            /\ \A k \in DOMAIN View.category_amounts :
                  View.category_amounts[k] =
                      SumAt({i \in sel : expenses[i].category = k})

\* C8 witness: a filtered view that leaves out rows which MonthlyTotals counts.
C8_Witness ==
    /\ Viewing
    /\ last.arg[1] = Some(Jan)
    /\ Feb \in DOMAIN View.monthly_totals
    /\ View.monthly_totals[Feb] > 0
    /\ View.total > 0

\* C9: the CategoryTotals of a view add up to its Total.
C9_CategoriesSumToTotal ==
    Viewing =>
        SumValues(View.category_amounts, DOMAIN View.category_amounts) = View.total

\* C9 witness: a view of two categories, one row of which stores an amount
\* that is not a number.
C9_Witness ==
    /\ Viewing
    /\ Cardinality(DOMAIN View.category_amounts) = 2
    /\ View.total > 0
    /\ \E i \in 1..Len(View.expenses) : View.expenses[i].amount.t = "text"

\* C10: BudgetAlert is true exactly when a budget row exists for the
\* identity and the effective month and Total >= its amount.
C10_AlertIffBudgetReached ==
    Viewing =>
        LET mon == IF last.arg[1] = None \/ last.arg[1] = Some(EmptyStr)
                   THEN CurrentMonth ELSE TheVal(last.arg[1])
        IN  View.budget_alert =
               (\E i \in 1..Len(budgets) :
                   /\ budgets[i].user = last.who
                   /\ budgets[i].month = Some(mon)
                   /\ budgets[i].amount.t = "real"
                   /\ View.total >= budgets[i].amount.v)

\* The month a view's budget is looked up for: the filter month, or the
\* current calendar month when no filter is in use.
MonthOfView == IF last.arg[1] = None \/ last.arg[1] = Some(EmptyStr)
               THEN CurrentMonth ELSE TheVal(last.arg[1])

\* C11: the Total that BudgetAlert compares with the budget is the sum of the
\* identity's expenses dated in the effective month, with a month filter and
\* without one.
C11_TotalOfEffectiveMonth ==
    Viewing =>
        View.total = SumAt({i \in RowsOf(last.who) :
                              <<expenses[i].date.y, expenses[i].date.m>> = MonthOfView})

\* ------------------------------------------------------ SpecAuth: signup

C12_Step ==
    last'.op = "signup" =>
        LET u == last'.arg[1] IN
        IF u \in DOMAIN users
        THEN /\ last'.flash = FlashExists
             /\ users' = users
        ELSE /\ last'.flash = FlashCreated
             /\ DOMAIN users' = DOMAIN users \cup {u}
             /\ users'[u].attempts = 0
             /\ users'[u].lock_time = None
             /\ \A v \in DOMAIN users : users'[v] = users[v]

\* C12: a signup with a taken name is answered "Username Exists" and leaves
\* the accounts as they were (hash, counter and lock of the existing one
\* included); a signup with a new name adds exactly that one account, with
\* counter 0 and no lock, so a name is created at most once, whichever
\* client's signup reaches the store first.
C12_RegisterOnce == [][C12_Step]_vars

\* A second client's signup for a name that is taken, with another password,
\* while the existing account carries failures and a lock.
C12_Witness ==
    /\ last.op = "signup"
    /\ last.client = "c2"
    /\ last.flash = FlashExists
    /\ last.arg[1] \in DOMAIN users
    /\ users[last.arg[1]].password # <<"hash", last.arg[2]>>
    /\ users[last.arg[1]].attempts >= MAX_LOGIN_ATTEMPTS
    /\ users[last.arg[1]].lock_time # None

\* --------------------------------------------------- bulk operations

\* Two identities in their sessions adding expenses in two months, setting a
\* budget, and clearing a month or everything.
NextScope ==
    \/ \E c \in Clients, d \in {Jan05, Feb01} :
          expense_seq < MaxId /\ add(c, "1", "food", d)
    \/ \E c \in Clients, m \in {Jan, Feb} : clear_month(c, Some(m))
    \/ \E c \in Clients : clear_all(c)
    \/ set_budget_delete("c1", Some(Jan), Real(1))
    \/ set_budget_delete("c2", Some(Jan), Real(2))
    \/ \E c \in Clients : set_budget_insert(c)

SpecScope == InitLoggedIn /\ [][NextScope]_vars

\* The rows of a table that belong to identities other than who.
RowsOfOthers(rows, who) == LET Foreign(r) == r.user # who IN SelectSeq(rows, Foreign)

C13_Step ==
    (/\ last'.op \in {"clear_month", "clear_all", "set_budget"}
     /\ last'.kind = Json)
        => /\ RowsOfOthers(expenses', last'.who) = RowsOfOthers(expenses, last'.who)
           /\ RowsOfOthers(budgets', last'.who) = RowsOfOthers(budgets, last'.who)
           /\ last'.op = "clear_all"
                 => \A i \in 1..Len(expenses') : expenses'[i].user # last'.who

\* C13: clearing a month, clearing everything and setting a budget leave the
\* expense and budget rows of every other identity as they were, and after
\* clearing everything the caller has no expense row.
C13_BulkOpsOwnRowsOnly == [][C13_Step]_vars

\* Alice cleared everything after both identities had stored rows: a row went,
\* bob's expense and bob's budget are still there.
C13_Witness ==
    /\ last.op = "clear_all"
    /\ last.who = "alice"
    /\ Len(expenses) < expense_seq
    /\ \E i \in 1..Len(expenses) : expenses[i].user = "bob"
    /\ \E i \in 1..Len(budgets) : budgets[i].user = "bob"

\* ------------------------------------------------- unvalidated dates

\* request.form["date"] is stored as sent: "2024-01-32" and "2024-13-01" are
\* texts that no calendar date matches.
Jan32 == Date(2024, 1, 32)
Month13 == Date(2024, 13, 1)

\* Expenses with dates of both kinds, and the dashboard filtered to the months
\* their first seven characters spell.
NextDates ==
    \/ \E a \in {"1", "2"}, d \in {Jan05, Jan32, Month13} :
          expense_seq < MaxId /\ add("c1", a, "food", d)
    \/ expense_seq < MaxId /\ add("c2", "1", "food", Jan32)
    \/ \E m \in {None, Some(Jan), Some(Prefix7(Month13))} : dashboard("c1", m)
    \/ \E c \in Clients : clear_month(c, Some(Jan))

SpecDates == InitLoggedIn /\ [][NextDates]_vars

\* C14: a view filtered to a month shows exactly the identity's records whose
\* date text begins with that month, whatever the stored text is; hence its
\* Total is the MonthlyTotals entry of that month, or 0 when there is none.
C14_FilterIsPrefix ==
    (Viewing /\ MonthGiven(last.arg[1])) =>
        LET m == TheVal(last.arg[1]) IN
        /\ {View.expenses[j].id : j \in 1..Len(View.expenses)}
              = {expenses[i].id : i \in RowsIn(last.who, last.arg[1])}
        /\ View.total = IF m \in DOMAIN View.monthly_totals
                        THEN View.monthly_totals[m] ELSE 0

\* ------------------------------------------------- submitted amounts

\* Alice creates and updates expenses with amounts that are numbers, that are
\* not, and that only Python reads as one, and looks at the sums.
NextAmounts ==
    \/ \E a \in {"1", "abc", "1_0"} :
          expense_seq < MaxId /\ add("c1", a, "food", Jan05)
    \/ \E id \in 1..MaxId, a \in {"2", "abc", "1_0"} :
          edit("c1", id, a, "", "rent", Feb01)
    \/ \E m \in {None, Some(Jan)} : dashboard("c1", m)
    \/ export_pdf("c1", None)

SpecAmounts == InitLoggedIn /\ [][NextAmounts]_vars

\* The number a submitted text reads as, 0 when it reads as none.
ReadsAs(a) == IF a \in DOMAIN FloatNumerals THEN FloatNumerals[a] ELSE 0

\* Create stores the number the submitted text reads as, 0 when it reads as
\* none, and answers with the usual redirect.
CreateStoresNumber ==
    (last'.op = "add" /\ last'.who # NoUser) =>
        /\ last'.kind = RedirectDashboard
        /\ Len(expenses') = Len(expenses) + 1
        /\ expenses'[Len(expenses')].amount = Real(ReadsAs(last'.arg[1]))

\* Every sum shown counts a record for the number its stored amount reads as
\* and for 0 when it reads as none, and the page or report is delivered.
SumsAreLenient ==
    /\ Viewing =>
          /\ View.total = SumAt(RowsIn(last.who, last.arg[1]))
          /\ \A k \in DOMAIN View.category_amounts :
                View.category_amounts[k] =
                    SumAt({i \in RowsIn(last.who, last.arg[1]) : expenses[i].category = k})
          /\ \A k \in DOMAIN View.monthly_totals :
                View.monthly_totals[k] =
                    SumAt({i \in RowsOf(last.who) :
                             <<expenses[i].date.y, expenses[i].date.m>> = k})
    /\ (last.op = "export_pdf" /\ last.who # NoUser) =>
          /\ last.out # None
          /\ TheVal(last.out).total = SumAt(RowsIn(last.who, last.arg[1]))

\* The record an update names holds, after it, the amount given by Stored.
UpdateStores(Stored(_)) ==
    (last'.op = "edit" /\ last'.who # NoUser) =>
        /\ last'.kind = RedirectDashboard
        /\ \A i \in 1..Len(expenses) :
              (expenses[i].id = last'.arg[1] /\ expenses[i].user = last'.who)
                  => expenses'[i].amount = Stored(last'.arg[2])

AsGiven(a) == Text(a)
AsTheColumnKeeps(a) == IF a \in DOMAIN Numerals THEN Real(Numerals[a]) ELSE Text(a)

\* C15: Create never fails on the amount and stores the number it reads as
\* (0 when it reads as none); Update stores the submitted text as given,
\* without coercion; every sum counts a record whose stored amount is not a
\* number as 0 and no page fails on it.
C15_AmountsAsClaimed ==
    [][CreateStoresNumber /\ UpdateStores(AsGiven) /\ SumsAreLenient']_vars

\* C15, amended: as above, except that Update hands the submitted text to a
\* REAL column, which keeps a text that reads as a number as that number and
\* any other text as given.
C15_AmountsAsStored ==
    [][CreateStoresNumber /\ UpdateStores(AsTheColumnKeeps) /\ SumsAreLenient']_vars

\* A view over a record updated to "abc", held as that text and counted as 0,
\* and a record updated to "2", held as the number 2.
C15_Witness ==
    /\ Viewing
    /\ \E j \in 1..Len(View.expenses) : View.expenses[j].amount = Text("abc")
    /\ \E j \in 1..Len(View.expenses) : View.expenses[j].amount = Real(2)
    /\ View.total = 2

\* ------------------------------------------------- overlapping logins

\* Two clients whose login requests on one account may overlap: either may
\* run its SELECT while the other is between its SELECT and its UPDATE.
NextRace ==
    \/ \E c \in Clients : signup(c, "alice", "pw1")
    \/ \E c \in Clients, p \in Passwords : login_select(c, "alice", p)
    \/ \E c \in Clients : login_update(c)
    \/ \E c \in Clients : logout(c)

SpecRace == Init /\ [][NextRace]_vars

\* C16: however login requests on an account overlap, the account is locked
\* once MAX_LOGIN_ATTEMPTS credential checks have failed since its last
\* successful login: no failed attempt is lost.
C16_NoFailureLost ==
    \A u \in DOMAIN users :
        streak[u] >= MAX_LOGIN_ATTEMPTS => users[u].lock_time # None

\* C17: in every reachable state, overlapping logins included, an account
\* has a lock timestamp exactly when its counter is at least
\* MAX_LOGIN_ATTEMPTS.
C17_LockIffThreshold ==
    \A u \in DOMAIN users :
        users[u].lock_time # None <=> users[u].attempts >= MAX_LOGIN_ATTEMPTS

\* ----------------------------------------------- SpecAuth: lock expiry

C18_Step ==
    LET u == last'.arg[1] IN
    (/\ last'.op = "login"
     /\ u \in DOMAIN users
     /\ users[u].lock_time # None
     /\ now >= TheVal(users[u].lock_time) + LOCK_MINUTES
     /\ users[u].password # <<"hash", last'.arg[2]>>)
        => /\ last'.flash = FlashLockedNow
           /\ users'[u].lock_time = Some(now)
           /\ users'[u].attempts = users[u].attempts + 1

\* C18: the end of the lock window does not reset the counter: the first
\* login with a wrong credential after it, no success having come between, is
\* answered "Account Locked!" and stamps a new lock on the account.
C18_ExpiredLockRelocks == [][C18_Step]_vars

\* A wrong credential after the window of an earlier lock: the row read held
\* the old lock, the row now holds one taken at this instant.
C18_Witness ==
    /\ last.op = "login"
    /\ last.flash = FlashLockedNow
    /\ last.row # None
    /\ TheVal(last.row).lock_time # None
    /\ now >= TheVal(TheVal(last.row).lock_time) + LOCK_MINUTES
    /\ users[last.arg[1]].lock_time = Some(now)
    /\ users[last.arg[1]].attempts > MAX_LOGIN_ATTEMPTS

\* ------------------------------------------------------------ sessions

\* One client through every route: signups and logins that succeed, fail and
\* are refused by a lock, and the expense and budget operations with and
\* without a session.
NextSession ==
    \/ \E u \in Names : signup("c1", u, "pw1")
    \/ \E p \in Passwords : login("c1", "alice", p)
    \/ login("c1", "bob", "pw1")
    \/ login_form("c1")
    \/ logout("c1")
    \/ add_form("c1")
    \/ expense_seq < MaxId /\ add("c1", "1", "food", Jan05)
    \/ delete("c1", 1)
    \/ edit("c1", 1, "2", "", "rent", Feb01)
    \/ edit_form("c1", 1)
    \/ set_budget_delete("c1", Some(Jan), Real(1))
    \/ set_budget_insert("c1")
    \/ clear_month("c1", Some(Jan))
    \/ clear_all("c1")
    \/ dashboard("c1", None)
    \/ export_pdf("c1", None)

SpecSession == Init /\ [][NextSession]_vars

C19_Step ==
    \A c \in Clients :
        session'[c] # session[c] =>
            /\ last'.client = c
            /\ \/ /\ last'.op = "logout"
                  /\ session'[c] = NoUser
               \/ /\ last'.op = "login"
                  /\ last'.kind = RedirectDashboard
                  /\ session'[c] = last'.arg[1]
                  /\ last'.arg[1] \in DOMAIN users
                  /\ users[last'.arg[1]].password = <<"hash", last'.arg[2]>>
                  /\ \/ users[last'.arg[1]].lock_time = None
                     \/ now >= TheVal(users[last'.arg[1]].lock_time) + LOCK_MINUTES

\* C19: a client's session changes only in two ways: a login that succeeds
\* (the account exists, no lock is active, the credential matches the stored
\* hash) binds it to that account, and a logout unbinds it.  Failed and
\* refused logins, signups and the expense and budget operations leave every
\* session as it was.
C19_SessionOnlyByLogin == [][C19_Step]_vars

\* A session bound to bob survived a login as alice that her lock refused.
C19_Witness ==
    /\ last.op = "login"
    /\ last.arg[1] = "alice"
    /\ last.flash = FlashLockedTryLater
    /\ session["c1"] = "bob"

====
